---- MODULE Spec2Model ----
(***************************************************************************)
(* Model of fnet/cli/predict.py: the prediction driver `main`, the result  *)
(* table writer `save_csv`, the image writer `save_tif`, the model         *)
(* reference parser `parse_model` and the option snapshot writer           *)
(* `save_args_as_json`.                                                    *)
(*                                                                         *)
(* Text is a sequence of tokens.  A token is either one of the separator   *)
(* characters ":" "," "/" "." or a maximal run of other characters, so     *)
(* str.split, os.path.basename and str.join act on tokens exactly as they  *)
(* act on characters.  An optional value is <<>> (None) or <<x>>.          *)
(***************************************************************************)
EXTENDS Integers, Sequences, FiniteSets, TLC

\* ------------------------------------------------------------------------
\* Bounds of the model
\* ------------------------------------------------------------------------
MaxRuns == 2
MaxData == 2
MaxSel == 2
MaxLong == 10
MaxWriteAttempts == 2
MaxOld == 1
MaxNew == 2
MaxSnap == 3
MaxCalls == 2
MaxRef == 4

\* `(count % 8) == 0`, predict.py line 213
FlushEvery == 8

None == <<>>
Some(x) == <<x>>
IsNone(o) == o = <<>>
Get(o) == o[1]

\* ------------------------------------------------------------------------
\* Text helpers
\* ------------------------------------------------------------------------
Last(s) == s[Len(s)]

RECURSIVE Flatten(_)
Flatten(ss) == IF ss = <<>> THEN <<>> ELSE Head(ss) \o Flatten(Tail(ss))

\* str.split(sep): the pieces between the occurrences of sep, always >= 1.
RECURSIVE split(_, _)
split(s, sep) ==
    IF \A i \in 1..Len(s) : s[i] # sep
    THEN <<s>>
    ELSE LET i == CHOOSE k \in 1..Len(s) :
                     s[k] = sep /\ \A j \in 1..(k - 1) : s[j] # sep
         IN  <<SubSeq(s, 1, i - 1)>> \o split(SubSeq(s, i + 1, Len(s)), sep)

\* sep.join(parts)
RECURSIVE join(_, _)
join(parts, sep) ==
    IF parts = <<>> THEN <<>>
    ELSE IF Len(parts) = 1 THEN parts[1]
    ELSE parts[1] \o <<sep>> \o join(Tail(parts), sep)

\* os.path.basename: what follows the last "/"
basename(p) == Last(split(p, "/"))

\* ------------------------------------------------------------------------
\* parse_model (lines 86-99).  error = TRUE stands for the ValueError.
\* ------------------------------------------------------------------------
parse_model_parts(model_str) == split(model_str, ":")

\* a parser that accepts two ":" and raises from three on
parse_model_raises_from_three(model_str) == Len(parse_model_parts(model_str)) > 3

parse_model_raises(model_str) == Len(parse_model_parts(model_str)) > 2

parse_model(model_str) ==
    LET parts == parse_model_parts(model_str)
        name == basename(parts[1])
        options == IF Len(parts) = 2 THEN split(parts[2], ",") ELSE <<>>
    IN  [path |-> parts[1],
         options |-> options,
         name |-> join(<<name>> \o options, ".")]

\* ------------------------------------------------------------------------
\* Tables.  A table (pandas DataFrame, or the csv file that holds one) is
\*   [columns : set of column names, rows : sequence of [id, vals]]
\* where vals maps the columns in which the row holds a value to that value;
\* a cell that is NaN (an empty csv field) is a column outside DOMAIN vals.
\* Line 109 makes the column order a function of the column set, so the
\* columns are kept as a set.  Cell values are text, as in the csv file.
\* ------------------------------------------------------------------------
NaN == <<>>

Ids(t) == {t.rows[i].id : i \in 1..Len(t.rows)}

RowsOf(t, id) == SelectSeq(t.rows, LAMBDA r : r.id = id)

RECURSIVE SortedSeq(_)
SortedSeq(S) ==
    IF S = {} THEN <<>>
    ELSE LET m == CHOOSE x \in S : \A y \in S : x <= y
         IN  <<m>> \o SortedSeq(S \ {m})

\* pd.DataFrame(entries).set_index(index_name), lines 216: one row per entry,
\* the columns are the union of the entries' keys, a NaN value is an empty cell.
DataFrame(es) ==
    [columns |-> UNION {DOMAIN es[i].vals : i \in 1..Len(es)},
     rows |-> [i \in 1..Len(es) |->
                 [id |-> es[i].id,
                  vals |-> [c \in {d \in DOMAIN es[i].vals : es[i].vals[d] # NaN}
                              |-> es[i].vals[c]]]]]

\* a combiner that prefers the other table's cell
combiner_old_first(x, y) ==
    [id |-> x.id,
     vals |-> [c \in DOMAIN x.vals \cup DOMAIN y.vals |->
                 IF c \in DOMAIN y.vals THEN y.vals[c] ELSE x.vals[c]]]

\* The combiner of DataFrame.combine_first: the caller's cell unless it is NaN.
combiner(x, y) ==
    [id |-> x.id,
     vals |-> [c \in DOMAIN x.vals \cup DOMAIN y.vals |->
                 IF c \in DOMAIN x.vals THEN x.vals[c] ELSE y.vals[c]]]

\* The rows of one identifier after DataFrame.align(join='outer'): every row
\* of the one side paired with every row of the other side.
joined(L, R) ==
    IF R = <<>> THEN L
    ELSE IF L = <<>> THEN R
    ELSE [k \in 1..(Len(L) * Len(R)) |->
            combiner(L[((k - 1) \div Len(R)) + 1], R[((k - 1) % Len(R)) + 1])]

\* df.combine_first(df_old), line 108.
combine_first(df, df_old) ==
    LET ids == [i \in 1..Len(df.rows) |-> df.rows[i].id]
        ids_old == [i \in 1..Len(df_old.rows) |-> df_old.rows[i].id]
        keys == SortedSeq(Ids(df) \cup Ids(df_old))
    IN  [columns |-> df.columns \cup df_old.columns,
         rows |->
           IF df_old.rows = <<>> THEN df.rows
           ELSE IF ids = ids_old
           THEN [i \in 1..Len(ids) |-> combiner(df.rows[i], df_old.rows[i])]
           ELSE Flatten([k \in 1..Len(keys) |->
                           joined(RowsOf(df, keys[k]), RowsOf(df_old, keys[k]))])]

\* save_csv that replaces the file instead of merging into it
save_csv_df_overwrite(csv, df) == df

\* The table save_csv hands to to_csv (lines 104-109); csv is the optional
\* content of the file at path_csv.
save_csv_df(csv, df) ==
    IF IsNone(csv) THEN df ELSE combine_first(df, Get(csv))

\* ------------------------------------------------------------------------
\* Numbers as text: str(int), str.isdigit, int(str)
\* ------------------------------------------------------------------------
Digit == <<"0", "1", "2", "3", "4", "5", "6", "7", "8", "9">>

RECURSIVE str(_)
str(n) == IF n < 10 THEN <<Digit[n + 1]>>
          ELSE str(n \div 10) \o <<Digit[(n % 10) + 1]>>

isdigit(s) == s # <<>> /\ \A i \in 1..Len(s) : \E d \in 1..10 : Digit[d] = s[i]

RECURSIVE int(_)
int(s) ==
    LET v == (CHOOSE d \in 1..10 : Digit[d] = Last(s)) - 1
    IN  IF Len(s) = 1 THEN v ELSE 10 * int(SubSeq(s, 1, Len(s) - 1)) + v

\* os.path.join(a, b) for a relative b
path_join(a, b) == a \o <<"/">> \o b

\* ------------------------------------------------------------------------
\* save_tif (lines 56-83) on the file system record fs
\* ------------------------------------------------------------------------
path_tif_dir == <<"tifs">>

\* a save_tif that returns without having written the file
save_tif_fs_nothing(fs, fname) == fs

\* the file system after save_tif(fname, ar, path_root)
save_tif_fs(fs, fname) ==
    [fs EXCEPT !.subdirs = @ \cup {path_tif_dir},
               !.tifs = @ \cup {path_join(path_tif_dir, fname)}]

\* a save_tif that returns the name of the file instead of its path
save_tif_fname(fname) == fname

\* the value save_tif returns: os.path.relpath(path_save, path_root)
save_tif(fname) == path_join(path_tif_dir, fname)

\* ------------------------------------------------------------------------
\* save_args_as_json (lines 114-140)
\* ------------------------------------------------------------------------
predict_options == <<"predict_options", ".", "json">>

\* a loop that numbers the first fallback 1: a name without a number counts as 0
next_path_json_from_one(path_save_dir, path_json) ==
    LET pieces == split(path_json, ".")
        number == pieces[Len(pieces) - 1]
        n == IF isdigit(number) THEN int(number) ELSE 0
    IN  path_join(path_save_dir,
                  join(<<<<"predict_options">>, str(n + 1), <<"json">>>>, "."))

\* one turn of the while loop, lines 131-137
next_path_json(path_save_dir, path_json) ==
    LET pieces == split(path_json, ".")
        number == pieces[Len(pieces) - 1]
        n == IF isdigit(number) THEN int(number) ELSE -1
    IN  path_join(path_save_dir,
                  join(<<<<"predict_options">>, str(n + 1), <<"json">>>>, "."))

\* ------------------------------------------------------------------------
\* get_dataset (lines 22-53).  w is what the run finds outside the program:
\*   exists, n_files : the input path exists and names that many images,
\*   callable, ds_index, ds_target : what the dataset factory is and yields.
\* ------------------------------------------------------------------------
\* a resolver that takes the dataset factory when both sources are set
get_dataset_error_dataset_first(a, w) ==
    IF IsNone(a.dataset) /\ IsNone(a.path_tif) THEN "source"
    ELSE IF ~IsNone(a.dataset) THEN (IF w.callable THEN "ok" ELSE "callable")
    ELSE IF ~w.exists THEN "path"
    ELSE "ok"

get_dataset_error(a, w) ==
    IF IsNone(a.dataset) = IsNone(a.path_tif) THEN "source"
    ELSE IF ~IsNone(a.dataset) THEN (IF w.callable THEN "ok" ELSE "callable")
    ELSE IF ~w.exists THEN "path"
    ELSE "ok"

get_dataset(a, w) ==
    IF ~IsNone(a.dataset)
    THEN [index |-> w.ds_index, has_target |-> w.ds_target]
    ELSE [index |-> [i \in 1..w.n_files |-> i - 1], has_target |-> FALSE]

\* a selection that ignores args.n_images
main_indices_whole(a, dataset) ==
    IF ~IsNone(a.idx_sel) THEN Get(a.idx_sel) ELSE dataset.index

\* lines 173-175
main_indices(a, dataset) ==
    LET all == IF ~IsNone(a.idx_sel) THEN Get(a.idx_sel) ELSE dataset.index
    IN  IF a.n_images > 0
        THEN SubSeq(all, 1, IF a.n_images < Len(all) THEN a.n_images ELSE Len(all))
        ELSE all

\* ------------------------------------------------------------------------
\* Inputs: the arguments of a run and what the run finds outside the program
\* ------------------------------------------------------------------------
M_plain == <<"m">>
M_no_tta == <<"d", "/", "m", ":", "no_tta">>
M_flags == <<"models", "/", "a", ":", "flag1", ",", "flag2">>
M_two_colons == <<"models", "/", "a", ":", "flag1", ":", "flag2">>
M_same_name == <<"e", "/", "m">>
M_tta_in_path == <<"no_tta", "/", "m", ":", "flag1">>

ModelLists ==
    {<<M_plain>>, <<M_no_tta>>, <<M_plain, M_flags>>, <<M_two_colons>>,
     <<M_plain, M_two_colons>>, <<M_plain, M_same_name>>, <<M_no_tta, M_flags>>,
     <<M_tta_in_path>>}

SampleIds == {0, 1}

SeqsUpTo(S, n) == UNION {[1..m -> S] : m \in 0..n}

\* a metric value as the csv holds it; NaN is the empty field
Evaluations == {NaN, <<"0.25">>, <<"0.75">>}

BaseArgs ==
    [dataset |-> None,
     path_tif |-> Some(<<"in">>),
     path_model_dir |-> <<M_plain>>,
     idx_sel |-> None,
     n_images |-> -1,
     no_signal |-> FALSE,
     no_target |-> FALSE,
     no_prediction |-> FALSE,
     metric |-> <<"fnet", ".", "metrics", ".", "corr_coef">>,
     path_save_dir |-> <<"out", ".", "5">>]

BaseWorld ==
    [exists |-> TRUE,
     n_files |-> 1,
     callable |-> TRUE,
     ds_index |-> <<0, 1>>,
     ds_target |-> TRUE,
     evaluation |-> <<"0.25">>,
     channels |-> 1]

DatasetArgs == [BaseArgs EXCEPT !.dataset = Some(<<"ds">>), !.path_tif = None]

\* the runs that differ in the input source
SourceRuns ==
    {<<[BaseArgs EXCEPT !.dataset = d, !.path_tif = p],
       [BaseWorld EXCEPT !.exists = e, !.callable = e]>> :
        d \in {None, Some(<<"ds">>)}, p \in {None, Some(<<"in">>)},
        e \in BOOLEAN}

\* the runs that differ in the samples selected
IndexRuns ==
    {<<[BaseArgs EXCEPT !.idx_sel = Some(q), !.n_images = n],
       [BaseWorld EXCEPT !.n_files = MaxData]>> :
        q \in SeqsUpTo(SampleIds, MaxSel), n \in {-1, 1}}
    \cup
    {<<[BaseArgs EXCEPT !.n_images = n], [BaseWorld EXCEPT !.n_files = f]>> :
        n \in {-1, 1}, f \in 0..MaxData}

\* the runs that differ in the models and in what the metric returns
ModelRuns ==
    {<<[BaseArgs EXCEPT !.path_model_dir = m], [BaseWorld EXCEPT !.n_files = f]>> :
        m \in ModelLists, f \in 1..MaxData}
    \cup
    {<<[BaseArgs EXCEPT !.path_model_dir = <<m>>],
       [BaseWorld EXCEPT !.evaluation = v, !.channels = c]>> :
        m \in {M_plain, M_no_tta}, v \in Evaluations, c \in {1, 2}}

\* the runs that differ in the images saved
ToggleRuns ==
    {<<[DatasetArgs EXCEPT !.no_signal = a, !.no_target = b, !.no_prediction = c],
       [BaseWorld EXCEPT !.ds_target = t]>> :
        a \in BOOLEAN, b \in BOOLEAN, c \in BOOLEAN, t \in BOOLEAN}

\* the runs over a directory of up to MaxLong images
LongRuns ==
    {<<BaseArgs, [BaseWorld EXCEPT !.n_files = f]>> : f \in 0..MaxLong}

\* a dataset whose identifiers are neither sorted nor distinct
NaturalOrder == <<3, 1, 4, 1, 5>>

\* the runs over that dataset, whole, cut, and with a cap beyond its end
OrderRuns ==
    {<<[DatasetArgs EXCEPT !.n_images = n, !.idx_sel = q],
       [BaseWorld EXCEPT !.ds_index = NaturalOrder]>> :
        n \in {-1, 0, 3, 7}, q \in {None, Some(<<5, 3>>)}}

\* the runs of the specification of a single run
Runs ==
    SourceRuns \cup IndexRuns \cup ModelRuns \cup ToggleRuns \cup LongRuns
        \cup OrderRuns

\* the runs of the specification of several runs on one output root: they
\* differ in what the metric returns, in the model, in the samples selected,
\* in the images saved, and one has a malformed model reference
MergeRuns ==
    {<<BaseArgs, [BaseWorld EXCEPT !.evaluation = v]>> : v \in Evaluations}
    \cup
    {<<[BaseArgs EXCEPT !.idx_sel = Some(q)], [BaseWorld EXCEPT !.n_files = 2]>> :
        q \in {<<1>>, <<0, 0>>, <<1, 0>>}}
    \cup
    {<<[BaseArgs EXCEPT !.path_model_dir = m], BaseWorld>> :
        m \in {<<M_no_tta>>, <<M_two_colons>>, <<M_plain, M_flags>>,
                <<M_plain, M_same_name>>}}
    \cup
    {<<[DatasetArgs EXCEPT !.no_signal = TRUE, !.no_prediction = TRUE], BaseWorld>>}

\* ------------------------------------------------------------------------
\* State
\* ------------------------------------------------------------------------
VARIABLES
    args,       \* the arguments of the current run
    world,      \* what the current run finds outside the program
    pc,         \* where main is
    dataset,    \* line 167
    indices,    \* lines 173-175
    count,      \* the 1-based counter of line 176; 0 before the first sample
    entry,      \* the row of the current sample, line 178
    k,          \* the position in args.path_model_dir, line 191
    model,      \* line 172: None or the location the model was loaded from
    model_def,  \* line 193: None or the last parsed reference
    entries,    \* line 171
    df,         \* the table save_csv is writing, line 110
    attempt,    \* failed attempts of the current to_csv
    path_json,  \* line 129: the snapshot path save_args_as_json is trying
    fs,         \* the output root: it exists, its subdirectories, the image
                \* files by their path from the root, the csv, the snapshots
    hist        \* what the run has done so far (observation only)

vars == <<args, world, pc, dataset, indices, count, entry, k, model, model_def,
          entries, df, attempt, path_json, fs, hist>>

EmptyFs ==
    [dir |-> FALSE, subdirs |-> {}, tifs |-> {}, csv |-> None, jsons |-> <<>>]

EmptyTable == [columns |-> {}, rows |-> <<>>]

\* hist: the run number, the counts at which save_csv was called, the file
\* save_csv found, whether its write completed, the table the last completed
\* write left, the calls of save_args_as_json, why the run aborted, the error
\* get_dataset raised, the calls of parse_model, of load_model and of
\* predict_piecewise, the images save_tif has written and returned from, and
\* the output root as the run found it.
NewHist(run, f, persisted) ==
    [run |-> run, flushes |-> <<>>, csv_old |-> None, wrote |-> FALSE,
     persisted |-> persisted, snapshots |-> 0, jsons_old |-> <<>>,
     reason |-> "", error |-> "", parses |-> 0, loads |-> <<>>,
     predicts |-> <<>>, written |-> {}, fs0 |-> f]

InitWith(R, F) ==
    /\ \E r \in R : args = r[1] /\ world = r[2]
    /\ pc = "start"
    /\ dataset = [index |-> <<>>, has_target |-> FALSE]
    /\ indices = <<>>
    /\ count = 0
    /\ entry = [id |-> 0, vals |-> <<>>]
    /\ k = 1
    /\ model = None
    /\ model_def = None
    /\ entries = <<>>
    /\ df = EmptyTable
    /\ attempt = 0
    /\ path_json = <<>>
    /\ fs \in F
    /\ hist = NewHist(1, fs, None)

\* the first run on an output root that does not exist yet
Init == InitWith(MergeRuns, {EmptyFs})

\* ------------------------------------------------------------------------
\* main (lines 160-218)
\* ------------------------------------------------------------------------
Abort(why) ==
    /\ pc' = "aborted"
    /\ hist' = [hist EXCEPT !.reason = why]

\* a loop that stops one sample early
AfterSample_early(c) == IF c < Len(indices) - 1 THEN "sample" ELSE "finalize"

\* where the loop of line 176 goes after the sample numbered c
AfterSample(c) == IF c < Len(indices) THEN "sample" ELSE "finalize"

\* lines 166-175: resolve the dataset, create the output root, pick the samples
main_start ==
    /\ pc = "start"
    /\ IF get_dataset_error(args, world) # "ok"
       THEN /\ pc' = "aborted"
            /\ hist' = [hist EXCEPT !.reason = "config",
                                    !.error = get_dataset_error(args, world)]
            /\ UNCHANGED <<dataset, indices, count, entries, model, fs>>
       ELSE /\ dataset' = get_dataset(args, world)
            /\ fs' = [fs EXCEPT !.dir = TRUE]
            /\ entries' = <<>>
            /\ model' = None
            /\ indices' = main_indices(args, dataset')
            /\ count' = 0
            /\ pc' = IF indices' = <<>> THEN "finalize" ELSE "sample"
            /\ hist' = hist
    /\ UNCHANGED <<args, world, entry, k, model_def, df, attempt, path_json>>

signal_tif(idx) == str(idx) \o <<"_signal", ".", "tif">>
target_tif(idx) == str(idx) \o <<"_target", ".", "tif">>

\* the file names of the images lines 183-190 save for the sample idx, in
\* the order saved
sample_tifs(idx) ==
    (IF ~args.no_signal THEN <<signal_tif(idx)>> ELSE <<>>)
        \o (IF ~args.no_target /\ dataset.has_target
            THEN <<target_tif(idx)>> ELSE <<>>)

\* lines 176-190: fetch the sample, save its signal and target images
sample_begin ==
    /\ pc = "sample"
    /\ LET idx == indices[count + 1]
           sig == ~args.no_signal
           tgt == ~args.no_target /\ dataset.has_target
           fs1 == IF sig THEN save_tif_fs(fs, signal_tif(idx)) ELSE fs
           fs2 == IF tgt THEN save_tif_fs(fs1, target_tif(idx)) ELSE fs1
           cols == (IF sig THEN {<<"path_signal">>} ELSE {})
                     \cup (IF tgt THEN {<<"path_target">>} ELSE {})
       IN  IF \A i \in 1..Len(dataset.index) : dataset.index[i] # idx
           THEN \* dataset.loc[idx] raises
                /\ count' = count + 1
                /\ Abort("runtime")
                /\ UNCHANGED <<entry, k, fs>>
           ELSE /\ count' = count + 1
                /\ entry' = [id |-> idx,
                             vals |-> [c \in cols |->
                                         IF c = <<"path_signal">>
                                         THEN save_tif(signal_tif(idx))
                                         ELSE save_tif(target_tif(idx))]]
                /\ fs' = fs2
                /\ k' = 1
                /\ pc' = "model"
                /\ hist' = [hist EXCEPT
                              !.written = @ \cup {save_tif(sample_tifs(idx)[i]) :
                                                    i \in DOMAIN sample_tifs(idx)}]
    /\ UNCHANGED <<args, world, dataset, indices, model, model_def, entries,
                   df, attempt, path_json>>

\* f'prediction_c{idx_c}.{model_def["name"]}', line 207
prediction_tag(idx_c, name) == <<"prediction_c">> \o str(idx_c) \o <<".">> \o name

prediction_tif(idx, tag) == str(idx) \o <<"_">> \o tag \o <<".", "tif">>

metric_column(a, name) == a.metric \o <<".">> \o name

prediction_column(tag) == <<"path_">> \o tag

\* the entry after lines 203-211 for the reference def
model_entry(e, def) ==
    LET chans == IF args.no_prediction THEN {} ELSE 0..(world.channels - 1)
        pcols == {prediction_column(prediction_tag(c, def.name)) : c \in chans}
        mcol == metric_column(args, def.name)
    IN  [e EXCEPT !.vals =
           [c \in DOMAIN e.vals \cup {mcol} \cup pcols |->
              IF c \in pcols
              THEN LET ch == CHOOSE x \in chans :
                               c = prediction_column(prediction_tag(x, def.name))
                   IN  save_tif(prediction_tif(e.id, prediction_tag(ch, def.name)))
              ELSE IF c = mcol THEN world.evaluation
              ELSE e.vals[c]]]

RECURSIVE save_tifs(_, _)
save_tifs(f, fnames) ==
    IF fnames = {} THEN f
    ELSE LET n == CHOOSE x \in fnames : TRUE
         IN  save_tifs(save_tif_fs(f, n), fnames \ {n})

\* a cache that loads every time
must_load_always(m, a) == TRUE

\* a cache that loads only when no model is loaded
must_load_when_none(m, a) == IsNone(m)

\* line 192: m is the model in use, a the arguments
must_load(m, a) == IsNone(m) \/ Len(a.path_model_dir) > 1

\* a prediction that always augments
predict_tta_always(def) == TRUE

\* line 199: tta=('no_tta' not in model_def['options'])
predict_tta(def) == \A i \in 1..Len(def.options) : def.options[i] # <<"no_tta">>

\* the file names of the prediction images of one turn, in channel order
prediction_tifs(idx, name) ==
    [c \in 1..(IF args.no_prediction THEN 0 ELSE world.channels) |->
        prediction_tif(idx, prediction_tag(c - 1, name))]

\* hist after lines 192-200 of a turn: the parse and the load when the model
\* is loaded, and the prediction
turn_hist(reload, def) ==
    LET loads == IF reload
                 THEN Append(hist.loads,
                             [sample |-> count, turn |-> k, path |-> def.path])
                 ELSE hist.loads
    IN  [hist EXCEPT
           !.parses = IF reload THEN @ + 1 ELSE @,
           !.loads = loads,
           !.predicts = Append(@, [sample |-> count, turn |-> k,
                                   model |-> IF reload THEN def.path ELSE Get(model),
                                   instance |-> Len(loads),
                                   def |-> def,
                                   tta |-> predict_tta(def)])]

\* lines 191-211: one turn of the loop over args.path_model_dir
model_step ==
    /\ pc = "model"
    /\ LET path_model_dir == args.path_model_dir[k]
           reload == must_load(model, args)
       IN  IF reload /\ parse_model_raises(path_model_dir)
           THEN /\ pc' = "aborted"
                /\ hist' = [hist EXCEPT !.reason = "config", !.parses = @ + 1]
                /\ UNCHANGED <<model, model_def, entry, fs, k>>
           ELSE LET def == IF reload THEN parse_model(path_model_dir)
                           ELSE Get(model_def)
                    fnames == prediction_tifs(entry.id, def.name)
                IN  /\ model_def' = Some(def)
                    /\ model' = IF reload THEN Some(def.path) ELSE model
                    /\ entry' = model_entry(entry, def)
                    /\ fs' = save_tifs(fs, {fnames[c] : c \in DOMAIN fnames})
                    /\ k' = k + 1
                    /\ pc' = IF k = Len(args.path_model_dir)
                             THEN "append" ELSE "model"
                    /\ hist' = [turn_hist(reload, def) EXCEPT
                                  !.written = @ \cup {save_tif(fnames[c]) :
                                                        c \in DOMAIN fnames}]
    /\ UNCHANGED <<args, world, dataset, indices, count, entries, df, attempt, path_json>>

\* a flush only after the last sample
flush_due_only_last(c, idx) == idx = Last(indices)

\* a flush only every FlushEvery samples
flush_due_no_last(c, idx) == (c % FlushEvery) = 0

\* line 213
flush_due(c, idx) == (c % FlushEvery) = 0 \/ idx = Last(indices)

\* lines 212-217 up to the call of to_csv: append the row and, when a flush
\* is due, read the old table and merge (save_csv lines 104-109)
sample_end ==
    /\ pc = "append"
    /\ entries' = Append(entries, entry)
    /\ IF flush_due(count, entry.id)
       THEN /\ df' = save_csv_df(fs.csv, DataFrame(entries'))
            /\ attempt' = 0
            /\ pc' = "write"
            /\ hist' = [hist EXCEPT !.flushes = Append(@, count),
                                    !.csv_old = fs.csv,
                                    !.wrote = FALSE]
       ELSE /\ pc' = AfterSample(count)
            /\ UNCHANGED <<df, attempt, hist>>
    /\ UNCHANGED <<args, world, dataset, indices, count, entry, k, model,
                   model_def, fs, path_json>>

\* what a to_csv that raises OSError can leave at path_csv: the file as it
\* was (the open failed) or opened for writing and cut after some of the rows
cut_files(t) ==
    {Some([columns |-> t.columns, rows |-> SubSeq(t.rows, 1, n)]) :
        n \in 0..(Len(t.rows) - 1)}

\* line 110, df.to_csv(path_csv) completes
write_ok ==
    /\ pc = "write"
    /\ fs' = [fs EXCEPT !.csv = Some(df)]
    /\ hist' = [hist EXCEPT !.wrote = TRUE, !.persisted = Some(df)]
    /\ pc' = AfterSample(count)
    /\ UNCHANGED <<args, world, dataset, indices, count, entry, k, model,
                   model_def, entries, df, attempt, path_json>>

\* retry_if_oserror: the wrapped call is tried again after an OSError, a
\* bounded number of times, and then the error is fatal
retry_if_oserror_gives_up(failed) == failed >= MaxWriteAttempts

\* line 110, df.to_csv(path_csv) raises OSError
write_oserror ==
    /\ pc = "write"
    /\ \E f \in {fs.csv} \cup cut_files(df) : fs' = [fs EXCEPT !.csv = f]
    /\ attempt' = attempt + 1
    /\ IF retry_if_oserror_gives_up(attempt')
       THEN Abort("io")
       ELSE pc' = "write" /\ hist' = hist
    /\ UNCHANGED <<args, world, dataset, indices, count, entry, k, model,
                   model_def, entries, df, path_json>>

\* the output root and the images written when the j-th save_tif of the file
\* names fnames raises (lines 78 or 81): the saves before it are done, and
\* the file of the failing one is absent or left as far as it was written
image_error(fnames, j, left) ==
    LET done == {fnames[i] : i \in 1..(j - 1)}
        fs1 == save_tifs(fs, done)
    IN  [fs |-> IF left THEN save_tif_fs(fs1, fnames[j]) ELSE fs1,
         written |-> hist.written \cup {save_tif(n) : n \in done}]

\* save_tif raises in lines 183-190 or in lines 205-211: nothing catches the
\* error, main ends without appending the row
save_tif_oserror ==
    /\ \/ /\ pc = "sample"
          /\ LET idx == indices[count + 1]
                 fnames == sample_tifs(idx)
             IN  /\ \E i \in 1..Len(dataset.index) : dataset.index[i] = idx
                 /\ \E j \in 1..Len(fnames) : \E left \in BOOLEAN :
                       LET r == image_error(fnames, j, left)
                       IN  /\ fs' = r.fs
                           /\ hist' = [hist EXCEPT !.reason = "image",
                                                   !.written = r.written]
          /\ count' = count + 1
          /\ UNCHANGED <<model, model_def>>
       \/ /\ pc = "model"
          /\ LET path_model_dir == args.path_model_dir[k]
                 reload == must_load(model, args)
             IN  /\ ~(reload /\ parse_model_raises(path_model_dir))
                 /\ LET def == IF reload THEN parse_model(path_model_dir)
                                ELSE Get(model_def)
                        fnames == prediction_tifs(entry.id, def.name)
                    IN  /\ model_def' = Some(def)
                        /\ model' = IF reload THEN Some(def.path) ELSE model
                        /\ \E j \in 1..Len(fnames) : \E left \in BOOLEAN :
                              LET r == image_error(fnames, j, left)
                              IN  /\ fs' = r.fs
                                  /\ hist' = [turn_hist(reload, def) EXCEPT
                                                !.reason = "image",
                                                !.written = r.written]
          /\ UNCHANGED count
    /\ pc' = "aborted"
    /\ UNCHANGED <<args, world, dataset, indices, entry, k, entries, df,
                   attempt, path_json>>

\* an error raised inside lines 177-211 by the dataset, the model or the
\* metric: nothing catches it, main ends
fail ==
    /\ pc \in {"sample", "model"}
    /\ Abort("runtime")
    /\ UNCHANGED <<args, world, dataset, indices, count, entry, k, model,
                   model_def, entries, df, attempt, fs, path_json>>

\* line 218 and line 129: save_args_as_json is called
save_args_begin ==
    /\ pc = "finalize"
    /\ path_json' = path_join(args.path_save_dir, predict_options)
    /\ hist' = [hist EXCEPT !.snapshots = @ + 1, !.jsons_old = fs.jsons]
    /\ pc' = "probe"
    /\ UNCHANGED <<args, world, dataset, indices, count, entry, k, model,
                   model_def, entries, df, attempt, fs>>

\* lines 130-137: the path exists, try the next one
save_args_probe ==
    /\ pc = "probe"
    /\ path_json \in DOMAIN fs.jsons
    /\ path_json' = next_path_json(args.path_save_dir, path_json)
    /\ UNCHANGED <<args, world, pc, dataset, indices, count, entry, k, model,
                   model_def, entries, df, attempt, fs, hist>>

\* lines 138-140: the path is free, write the arguments there
save_args_write ==
    /\ pc = "probe"
    /\ path_json \notin DOMAIN fs.jsons
    /\ fs' = [fs EXCEPT !.jsons = (path_json :> args) @@ @]
    /\ pc' = "done"
    /\ UNCHANGED <<args, world, dataset, indices, count, entry, k, model,
                   model_def, entries, df, attempt, path_json, hist>>

\* the program is started again on the same output root
next_run ==
    /\ pc \in {"done", "aborted"}
    /\ hist.run < MaxRuns
    /\ \E r \in MergeRuns : args' = r[1] /\ world' = r[2]
    /\ pc' = "start"
    /\ dataset' = [index |-> <<>>, has_target |-> FALSE]
    /\ indices' = <<>>
    /\ count' = 0
    /\ entry' = [id |-> 0, vals |-> <<>>]
    /\ k' = 1
    /\ model' = None
    /\ model_def' = None
    /\ entries' = <<>>
    /\ df' = EmptyTable
    /\ attempt' = 0
    /\ path_json' = <<>>
    /\ hist' = NewHist(hist.run + 1, fs, hist.persisted)
    /\ UNCHANGED fs

Next ==
    \/ main_start
    \/ sample_begin
    \/ model_step
    \/ sample_end
    \/ write_ok
    \/ write_oserror
    \/ save_tif_oserror
    \/ fail
    \/ save_args_begin
    \/ save_args_probe
    \/ save_args_write
    \/ next_run

Spec == Init /\ [][Next]_vars

\* a single run, on an empty output root or on one with an earlier snapshot
\* an output root that holds the snapshot of an earlier run
SnapshotFs ==
    [EmptyFs EXCEPT !.dir = TRUE,
                    !.jsons = (path_join(BaseArgs.path_save_dir, predict_options)
                                  :> DatasetArgs)]

InitOne == InitWith(Runs, {EmptyFs, SnapshotFs})

NextOne ==
    \/ main_start
    \/ sample_begin
    \/ model_step
    \/ sample_end
    \/ write_ok
    \/ write_oserror
    \/ save_tif_oserror
    \/ fail
    \/ save_args_begin
    \/ save_args_probe
    \/ save_args_write

SpecOne == InitOne /\ [][NextOne]_vars

\* ------------------------------------------------------------------------
\* save_csv alone (lines 102-111) on the tables and batches of up to MaxOld
\* and MaxNew rows over two columns
\* ------------------------------------------------------------------------
\* the rows of a batch: x is absent, 1 or 9, y is NaN or 2
CsvEntryVals ==
    {v \in UNION {[D -> {NaN, <<"1">>, <<"2">>, <<"9">>}] :
                    D \in {{<<"y">>}, {<<"x">>, <<"y">>}}} :
        /\ <<"x">> \in DOMAIN v => v[<<"x">>] \in {<<"1">>, <<"9">>}
        /\ v[<<"y">>] \in {NaN, <<"2">>}}

CsvEntries == {[id |-> i, vals |-> v] : i \in SampleIds, v \in CsvEntryVals}

InitCsv ==
    /\ args = BaseArgs
    /\ world = BaseWorld
    /\ pc = "csv"
    /\ dataset = [index |-> <<>>, has_target |-> FALSE]
    /\ indices = <<>>
    /\ count = 0
    /\ entry = [id |-> 0, vals |-> <<>>]
    /\ k = 1
    /\ model = None
    /\ model_def = None
    /\ entries \in SeqsUpTo(CsvEntries, MaxNew) \ {<<>>}
    /\ df = EmptyTable
    /\ attempt = 0
    /\ path_json = <<>>
    /\ \E old \in {None} \cup {Some(DataFrame(es)) : es \in SeqsUpTo(CsvEntries, MaxOld)} :
          fs = [EmptyFs EXCEPT !.dir = TRUE, !.csv = old]
    /\ hist = NewHist(1, fs, fs.csv)

\* save_csv(path_csv, pd.DataFrame(entries).set_index(index_name)) when
\* to_csv completes
save_csv ==
    /\ pc = "csv"
    /\ df' = save_csv_df(fs.csv, DataFrame(entries))
    /\ fs' = [fs EXCEPT !.csv = Some(df')]
    /\ hist' = [hist EXCEPT !.csv_old = fs.csv, !.wrote = TRUE,
                            !.persisted = Some(df')]
    /\ pc' = "saved"
    /\ UNCHANGED <<args, world, dataset, indices, count, entry, k, model,
                   model_def, entries, attempt, path_json>>

\* save_csv is called once more with the same batch on the file the first
\* call left; hist keeps what the first call found and wrote
save_csv_again ==
    /\ pc = "saved"
    /\ df' = save_csv_df(fs.csv, DataFrame(entries))
    /\ fs' = [fs EXCEPT !.csv = Some(df')]
    /\ pc' = "saved_again"
    /\ UNCHANGED <<args, world, dataset, indices, count, entry, k, model,
                   model_def, entries, attempt, path_json, hist>>

NextCsv ==
    \/ save_csv
    \/ save_csv_again

SpecCsv == InitCsv /\ [][NextCsv]_vars

\* ------------------------------------------------------------------------
\* save_args_as_json alone (lines 114-140), called up to MaxCalls times on an
\* output root that holds any of the first MaxSnap + 1 snapshot names
\* ------------------------------------------------------------------------
numbered_json(path_save_dir, n) ==
    path_join(path_save_dir,
              join(<<<<"predict_options">>, str(n), <<"json">>>>, "."))

JsonNames ==
    {path_join(BaseArgs.path_save_dir, predict_options)}
        \cup {numbered_json(BaseArgs.path_save_dir, n) : n \in 0..(MaxSnap - 1)}

InitJson ==
    /\ args \in {BaseArgs, DatasetArgs}
    /\ world = BaseWorld
    /\ pc = "finalize"
    /\ dataset = [index |-> <<>>, has_target |-> FALSE]
    /\ indices = <<>>
    /\ count = 0
    /\ entry = [id |-> 0, vals |-> <<>>]
    /\ k = 1
    /\ model = None
    /\ model_def = None
    /\ entries = <<>>
    /\ df = EmptyTable
    /\ attempt = 0
    /\ path_json = <<>>
    /\ \E S \in SUBSET JsonNames :
          fs = [EmptyFs EXCEPT !.dir = TRUE, !.jsons = [n \in S |-> BaseArgs]]
    /\ hist = NewHist(1, fs, None)

\* a later run on the same output root reaches line 218
save_args_again ==
    /\ pc = "done"
    /\ hist.snapshots < MaxCalls
    /\ args' \in {BaseArgs, DatasetArgs}
    /\ pc' = "finalize"
    /\ UNCHANGED <<world, dataset, indices, count, entry, k, model, model_def,
                   entries, df, attempt, path_json, fs, hist>>

NextJson ==
    \/ save_args_begin
    \/ save_args_probe
    \/ save_args_write
    \/ save_args_again

SpecJson == InitJson /\ [][NextJson]_vars

\* ------------------------------------------------------------------------
\* parse_model alone (lines 86-99) on the reference strings of up to MaxRef
\* tokens and on the named references
\* ------------------------------------------------------------------------
RefTokens == {"a", "b", ":", ",", "/"}

RefStrings ==
    SeqsUpTo(RefTokens, MaxRef)
        \cup {M_plain, M_no_tta, M_flags, M_two_colons, M_same_name}

InitParse ==
    /\ \E m \in RefStrings : args = [BaseArgs EXCEPT !.path_model_dir = <<m>>]
    /\ world = BaseWorld
    /\ pc = "parse"
    /\ dataset = [index |-> <<>>, has_target |-> FALSE]
    /\ indices = <<>>
    /\ count = 0
    /\ entry = [id |-> 0, vals |-> <<>>]
    /\ k = 1
    /\ model = None
    /\ model_def = None
    /\ entries = <<>>
    /\ df = EmptyTable
    /\ attempt = 0
    /\ path_json = <<>>
    /\ fs = EmptyFs
    /\ hist = NewHist(1, fs, None)

\* model_def = parse_model(path_model_dir), line 193
parse_model_call ==
    /\ pc = "parse"
    /\ IF parse_model_raises(args.path_model_dir[k])
       THEN Abort("config") /\ UNCHANGED model_def
       ELSE /\ model_def' = Some(parse_model(args.path_model_dir[k]))
            /\ pc' = "parsed"
            /\ hist' = hist
    /\ UNCHANGED <<args, world, dataset, indices, count, entry, k, model,
                   entries, df, attempt, path_json, fs>>

SpecParse == InitParse /\ [][parse_model_call]_vars

\* ------------------------------------------------------------------------
\* Properties
\* ------------------------------------------------------------------------
Rows(t) == {t.rows[i] : i \in 1..Len(t.rows)}

HasValue(t, id, c) == \E r \in Rows(t) : r.id = id /\ c \in DOMAIN r.vals

\* the state right after a call of save_csv has returned
FlushDone ==
    /\ pc \in {"sample", "finalize"}
    /\ hist.flushes # <<>>
    /\ Last(hist.flushes) = count
    /\ hist.wrote

\* the batch of the flush that has just returned
Batch == DataFrame(entries)

\* C1: a completed flush keeps every row of the table it found and every cell
\* that held a value: the cell still holds a value, and holds the same value
\* when the batch has no value for it.
C1_FlushKeepsCells ==
    (FlushDone /\ ~IsNone(hist.csv_old)) =>
        LET old == Get(hist.csv_old)
            new == Get(fs.csv)
        IN  /\ \A id \in Ids(old) :
                  Len(RowsOf(new, id)) >= Len(RowsOf(old, id))
            /\ \A r \in Rows(old) : \A c \in DOMAIN r.vals :
                  /\ HasValue(new, r.id, c)
                  /\ ~HasValue(Batch, r.id, c) =>
                        \E q \in Rows(new) :
                            q.id = r.id /\ c \in DOMAIN q.vals /\ q.vals[c] = r.vals[c]

\* C1 witness: a flush of the second run has returned; the table it found held
\* a cell the batch has no value for, a cell the batch replaced by another
\* value, and a row of a sample the batch does not contain.
C1_Witness ==
    /\ FlushDone
    /\ hist.run = 2
    /\ ~IsNone(hist.csv_old)
    /\ LET old == Get(hist.csv_old)
       IN  /\ \E r \in Rows(old) : \E c \in DOMAIN r.vals : ~HasValue(Batch, r.id, c)
           /\ \E r \in Rows(old) : \E q \in Rows(Batch) : \E c \in DOMAIN r.vals :
                 q.id = r.id /\ c \in DOMAIN q.vals /\ q.vals[c] # r.vals[c]
           /\ \E id \in Ids(old) : id \notin Ids(Batch)

\* the cell of row r in column c, NaN when the row holds no value there
Cell(r, c) == IF c \in DOMAIN r.vals THEN r.vals[c] ELSE NaN

NoRow == [id |-> 0, vals |-> <<>>]

\* the rows table t holds for id, or one row without values when it has none
RowsOrNone(t, id) ==
    IF id \in Ids(t) THEN {r \in Rows(t) : r.id = id} ELSE {NoRow}

UniqueIds(t) == \A id \in Ids(t) : Len(RowsOf(t, id)) = 1

\* C2: save_csv writes the batch when no table exists; otherwise it writes a
\* table whose identifiers are those of the old table and of the batch, each
\* of whose rows holds, column by column, the value of a batch row of its
\* identifier where that row has one and else the value of an old row of its
\* identifier; identifiers that are unique in both are unique in the result.
C2_MergePrefersNew ==
    pc = "saved" =>
        LET new == Batch
            res == Get(fs.csv)
        IN  IF IsNone(hist.csv_old) THEN res = new
            ELSE LET old == Get(hist.csv_old)
                 IN  /\ Ids(res) = Ids(old) \cup Ids(new)
                     /\ \A r \in Rows(res) :
                           \E n \in RowsOrNone(new, r.id) :
                           \E o \in RowsOrNone(old, r.id) :
                           \A c \in old.columns \cup new.columns :
                               Cell(r, c) = IF Cell(n, c) # NaN THEN Cell(n, c)
                                            ELSE Cell(o, c)
                     /\ (UniqueIds(old) /\ UniqueIds(new)) => UniqueIds(res)

Table_a(x, y) ==
    [columns |-> {<<"x">>, <<"y">>},
     rows |-> <<[id |-> 0, vals |-> (<<"x">> :> x) @@ (<<"y">> :> y)]>>]

\* C2 witness: old {a: {x: 1, y: 2}} and new {a: {x: 9}} gave {a: {x: 9, y: 2}}
C2_Witness ==
    /\ pc = "saved"
    /\ hist.csv_old = Some(Table_a(<<"1">>, <<"2">>))
    /\ entries = <<[id |-> 0, vals |-> (<<"x">> :> <<"9">>) @@ (<<"y">> :> NaN)]>>
    /\ fs.csv = Some(Table_a(<<"9">>, <<"2">>))

\* table new holds every row and value of table old (both optional)
Retains(old, new) ==
    IsNone(old) \/
        /\ ~IsNone(new)
        /\ \A r \in Rows(Get(old)) :
              \E q \in Rows(Get(new)) :
                  q.id = r.id /\ \A c \in DOMAIN r.vals : Cell(q, c) = r.vals[c]

\* C3 (as claimed): when a run has aborted, the table file holds every row and
\* value the last completed flush had persisted.
C3_AbortKeepsPersisted == pc = "aborted" => Retains(hist.persisted, fs.csv)

\* the row of entry e is in the persisted table
InTable(e) ==
    /\ ~IsNone(fs.csv)
    /\ \E r \in Rows(Get(fs.csv)) :
          r.id = e.id /\ \A c \in DOMAIN e.vals : e.vals[c] # NaN => Cell(r, c) = e.vals[c]

\* the completed samples of this run whose rows are not in the persisted table
Unpersisted == Cardinality({i \in 1..Len(entries) : ~InTable(entries[i])})

\* C4 (as claimed): at every point of a run at most 7 completed samples are
\* missing from the persisted table.
C4_AtMostSevenUnflushed == Unpersisted <= FlushEvery - 1

\* C4 (amended): outside a result-table write (the run is neither in one nor
\* aborted by one), at most 7 completed samples are missing from the table.
C4_AtMostSevenOutsideWrite ==
    (pc # "write" /\ ~(pc = "aborted" /\ hist.reason = "io"))
        => Unpersisted <= FlushEvery - 1

\* C4 witness: the run aborted while processing its 8th sample, with the 7
\* samples completed before it not yet flushed.
C4_Witness ==
    /\ pc = "aborted"
    /\ hist.reason = "runtime"
    /\ count = FlushEvery
    /\ Len(entries) = FlushEvery - 1
    /\ Unpersisted = FlushEvery - 1

\* C5: save_csv has been called after every completed sample whose count is a
\* multiple of 8 or the last one, and each call gets the rows of all samples
\* completed since the start of the run.
C5_FlushPointsAndBatch ==
    /\ \A c \in 1..Len(entries) :
          ((c % FlushEvery) = 0 \/ c = Len(indices))
              => \E i \in 1..Len(hist.flushes) : hist.flushes[i] = c
    /\ pc = "write" =>
          /\ Len(entries) = count
          /\ \A i \in 1..count :
                /\ entries[i].id = indices[i]
                /\ \E r \in Rows(df) :
                      /\ r.id = entries[i].id
                      /\ \A c \in DOMAIN entries[i].vals :
                            entries[i].vals[c] # NaN => Cell(r, c) = entries[i].vals[c]

\* C5 witness: a run of 10 samples is in its second call of save_csv, after
\* the calls at samples 8 and 10, with the rows of all 10 samples.
C5_Witness ==
    /\ pc = "write"
    /\ hist.flushes = <<FlushEvery, FlushEvery + 2>>
    /\ Len(entries) = FlushEvery + 2
    /\ Len(df.rows) = FlushEvery + 2

\* the counts at which a run of n samples is to flush
ExpectedFlushes(n) == SortedSeq({c \in 1..n : (c % FlushEvery) = 0 \/ c = n})

\* C6 (as claimed): a run that completes has called save_csv exactly after
\* the samples whose count is a multiple of 8 and after the last sample.
C6_ExactlyCeilFlushes ==
    pc = "done" => hist.flushes = ExpectedFlushes(Len(indices))

\* C7 (as claimed): after a run the persisted table holds at most one row per
\* sample identifier.
C7_OneRowPerId ==
    (pc = "done" /\ ~IsNone(fs.csv)) => UniqueIds(Get(fs.csv))

\* the configuration errors of the claim: no or two dataset sources, a missing
\* input path, a model reference with two ':'
ConfigInvalid ==
    \/ get_dataset_error(args, world) \in {"source", "path"}
    \/ \E i \in 1..Len(args.path_model_dir) :
          parse_model_raises(args.path_model_dir[i])

\* C8 (as claimed): a run with an invalid configuration processes no sample
\* and leaves the output root as it found it.
C8_InvalidConfigNoOutput ==
    ConfigInvalid => (pc \in {"start", "aborted"} /\ count = 0 /\ fs = hist.fs0)

\* the names save_args_as_json tries, in order
Candidate(j) ==
    IF j = 0 THEN path_join(args.path_save_dir, predict_options)
    ELSE numbered_json(args.path_save_dir, j - 1)

FirstUnused(files) ==
    Candidate(CHOOSE j \in 0..Cardinality(files) :
                 Candidate(j) \notin files /\ \A i \in 0..(j - 1) : Candidate(i) \in files)

\* C9: save_args_as_json tries at most one name per existing file and one
\* more, writes the arguments to the first unused name of the sequence
\* predict_options.json, predict_options.0.json, predict_options.1.json, ...,
\* leaves the existing snapshots as they were, and k calls add k files.
C9_SnapshotNeverOverwrites ==
    /\ pc = "probe" =>
          \E j \in 0..Cardinality(DOMAIN fs.jsons) : path_json = Candidate(j)
    /\ pc = "done" =>
          /\ path_json \notin DOMAIN hist.jsons_old
          /\ path_json = FirstUnused(DOMAIN hist.jsons_old)
          /\ fs.jsons = (path_json :> args) @@ hist.jsons_old
          /\ Cardinality(DOMAIN fs.jsons)
                = Cardinality(DOMAIN hist.fs0.jsons) + hist.snapshots

\* C9 witness: predict_options.json and predict_options.0.json existed, the
\* second call has written predict_options.2.json after the first wrote
\* predict_options.1.json.
C9_Witness ==
    /\ pc = "done"
    /\ hist.snapshots = 2
    /\ DOMAIN hist.fs0.jsons = {Candidate(0), Candidate(1)}
    /\ path_json = Candidate(3)
    /\ args # BaseArgs

\* C10: save_args_as_json is called at most once in a run, only when every
\* sample has been processed and the last flush has returned; a run that has
\* completed has called it, a run that has aborted has not.
C10_SnapshotOnceAtEnd ==
    /\ hist.snapshots <= 1
    /\ hist.snapshots = 1 =>
          /\ pc \in {"probe", "done"}
          /\ count = Len(indices)
          /\ Len(entries) = Len(indices)
          /\ indices # <<>> => (hist.wrote /\ Last(hist.flushes) = Len(indices))
    /\ pc = "done" => hist.snapshots = 1
    /\ pc = "aborted" => hist.snapshots = 0

\* C10 witness: a run over two samples has completed, its last flush came
\* after the second sample and its snapshot is written.
C10_Witness ==
    /\ pc = "done"
    /\ Len(indices) = 2
    /\ hist.flushes # <<>>
    /\ Last(hist.flushes) = 2
    /\ hist.snapshots = 1
    /\ path_json \in DOMAIN fs.jsons

\* C11 (as claimed): a second save_csv with the same batch on the same file
\* leaves the table the first call left.
C11_SaveTwiceSameTable == pc = "saved_again" => fs.csv = hist.persisted

\* a second save_csv of a batch without repeated identifiers leaves the table
\* the first call left
C11_UniqueBatchSameTable ==
    (pc = "saved_again" /\ UniqueIds(Batch)) => fs.csv = hist.persisted

\* the number of tokens of s equal to c
Occurrences(s, c) == Cardinality({i \in 1..Len(s) : s[i] = c})

\* parts are the pieces of s between its separators sep, in order
IsSplit(parts, s, sep) ==
    /\ Len(parts) >= 1
    /\ \A i \in 1..Len(parts) : Occurrences(parts[i], sep) = 0
    /\ Len(parts) = Occurrences(s, sep) + 1
    /\ s = Flatten([i \in 1..Len(parts) |->
                      IF i = 1 THEN parts[1] ELSE <<sep>> \o parts[i]])

\* b is what follows the last "/" of p, or p when it has none
IsBaseName(b, p) ==
    /\ Occurrences(b, "/") = 0
    /\ \/ b = p
       \/ /\ Len(b) < Len(p)
          /\ p[Len(p) - Len(b)] = "/"
          /\ b = SubSeq(p, Len(p) - Len(b) + 1, Len(p))

\* C12: parse_model raises exactly for the references with more than one
\* ":"; for the others the path is the text before the ":", the options are
\* the comma-separated pieces of the text after it (none without a ":"),
\* and the name is the base name of the path followed by "." and each option.
C12_ParseModel ==
    LET ref == args.path_model_dir[1]
        colons == Occurrences(ref, ":")
    IN  /\ pc = "aborted" => colons > 1
        /\ pc = "parsed" =>
              LET def == Get(model_def)
              IN  /\ colons <= 1
                  /\ colons = 0 => (def.path = ref /\ def.options = <<>>)
                  /\ colons = 1 =>
                        \E i \in 1..Len(ref) :
                            /\ ref[i] = ":"
                            /\ def.path = SubSeq(ref, 1, i - 1)
                            /\ IsSplit(def.options, SubSeq(ref, i + 1, Len(ref)), ",")
                  /\ \E b \in {SubSeq(def.path, i, Len(def.path)) :
                                  i \in 1..(Len(def.path) + 1)} :
                        /\ IsBaseName(b, def.path)
                        /\ def.name = b \o Flatten([i \in 1..Len(def.options) |->
                                                      <<".">> \o def.options[i]])

\* C12 witness: "models/a:flag1,flag2" gave the path "models/a", the options
\* flag1, flag2 and the name "a.flag1.flag2"
C12_Witness ==
    /\ pc = "parsed"
    /\ args.path_model_dir = <<M_flags>>
    /\ model_def = Some([path |-> <<"models", "/", "a">>,
                         options |-> <<<<"flag1">>, <<"flag2">>>>,
                         name |-> <<"a", ".", "flag1", ".", "flag2">>])

\* the first n elements of s, all of s when it has fewer
Prefix(s, n) == [i \in 1..(IF n < Len(s) THEN n ELSE Len(s)) |-> s[i]]

\* the sequence a run is to process: the selection when one is given, else
\* the dataset's identifiers in their order, cut when the cap is positive
ToProcess ==
    LET chosen == IF IsNone(args.idx_sel) THEN dataset.index ELSE Get(args.idx_sel)
    IN  IF args.n_images > 0 THEN Prefix(chosen, args.n_images) ELSE chosen

\* C13: once the dataset is resolved the run iterates over ToProcess: the
\* rows appended so far are those of its first elements in order, a sample in
\* work is the one at position `count`, and a run that reaches the end of the
\* loop has processed every position once.
C13_ProcessedInOrder ==
    (pc # "start" /\ get_dataset_error(args, world) = "ok") =>
        /\ indices = ToProcess
        /\ Len(entries) <= count
        /\ count <= Len(indices)
        /\ \A i \in 1..Len(entries) : entries[i].id = indices[i]
        /\ pc \in {"model", "append"} =>
              (Len(entries) = count - 1 /\ entry.id = indices[count])
        /\ pc \in {"write", "sample"} => Len(entries) = count
        /\ pc \in {"finalize", "probe", "done"} => Len(entries) = Len(indices)

\* C13 witness: the dataset's order is 3, 1, 4, 1, 5, the cap is 3, and the
\* run has completed with the rows of 3, 1, 4 in that order.
C13_Witness ==
    /\ pc = "done"
    /\ IsNone(args.idx_sel)
    /\ dataset.index = NaturalOrder
    /\ args.n_images = 3
    /\ [i \in 1..Len(entries) |-> entries[i].id] = <<3, 1, 4>>

\* the number of input sources the arguments set
SourcesSet ==
    (IF IsNone(args.dataset) THEN 0 ELSE 1) + (IF IsNone(args.path_tif) THEN 0 ELSE 1)

\* C14: once main has called get_dataset, the run has aborted with the error
\* 'Must specify one input source type' when the arguments set both sources
\* or none, and has not raised that error when they set exactly one.
C14_SourceExclusivity ==
    pc # "start" =>
        /\ SourcesSet # 1 => (pc = "aborted" /\ hist.error = "source")
        /\ SourcesSet = 1 => hist.error # "source"

\* C14 witness: a dataset factory and an input path that both exist were
\* given and get_dataset raised the source error.
C14_Witness ==
    /\ pc = "aborted"
    /\ SourcesSet = 2
    /\ world.callable
    /\ world.exists
    /\ hist.error = "source"
    /\ fs = hist.fs0

\* the rows the run has assembled: the batch and the row in work
RowsInRun ==
    Rows([rows |-> entries]) \cup (IF pc \in {"model", "append"} THEN {entry} ELSE {})

\* the columns of row r that hold the path of an image
PathColumns(r) ==
    {c \in DOMAIN r.vals : c[1] \in {"path_signal", "path_target", "path_"}}

\* the file name of the image of column c of the sample id:
\* <identifier>_<role>.tif
ImageName(id, c) ==
    IF c = <<"path_signal">> THEN str(id) \o <<"_signal", ".", "tif">>
    ELSE IF c = <<"path_target">> THEN str(id) \o <<"_target", ".", "tif">>
    ELSE str(id) \o <<"_">> \o Tail(c) \o <<".", "tif">>

\* every image path of every row is sub/<name>, the subdirectory sub of the
\* output root exists and holds the file
SavedUnder(sub) ==
    \A r \in RowsInRun : \A c \in PathColumns(r) :
        /\ r.vals[c] = sub \o <<"/">> \o ImageName(r.id, c)
        /\ fs.dir
        /\ sub \in fs.subdirs
        /\ r.vals[c] \in fs.tifs

Locations == Len(args.path_model_dir)

\* C16: with one configured location the run parses and loads at most once,
\* at its first sample, every prediction uses that one instance, and a run
\* that completes has loaded once, or never when it had no samples; with
\* several locations every prediction is preceded by its own parse and load,
\* in the order of the (sample, location) pairs, and a run that completes
\* over n samples has loaded n times the number of locations.
C16_LoadsPerRun ==
    LET L == hist.loads
        P == hist.predicts
    IN  /\ Locations = 1 =>
              /\ Len(L) <= 1
              /\ hist.parses <= 1
              /\ Len(L) = 1 => (L[1].sample = 1 /\ hist.parses = 1)
              /\ \A i \in 1..Len(P) : Len(L) = 1 /\ P[i].instance = 1
              /\ pc = "done" => Len(L) = (IF indices = <<>> THEN 0 ELSE 1)
        /\ Locations > 1 =>
              /\ Len(L) = Len(P)
              /\ hist.parses \in {Len(L), Len(L) + 1}
              /\ hist.parses = Len(L) + 1 => pc = "aborted"
              /\ \A i \in 1..Len(L) :
                    /\ L[i].sample = ((i - 1) \div Locations) + 1
                    /\ L[i].turn = ((i - 1) % Locations) + 1
                    /\ P[i].sample = L[i].sample
                    /\ P[i].turn = L[i].turn
                    /\ P[i].instance = i
              /\ pc = "done" => Len(L) = Len(indices) * Locations

\* C16 witness: a run with two locations over two samples has completed
\* after four loads.
C16_Witness ==
    /\ pc = "done"
    /\ Locations = 2
    /\ Len(indices) = 2
    /\ Len(hist.loads) = 4
    /\ hist.parses = 4

\* a run with one location has completed two samples on one load
C16_OneLocationServed ==
    /\ pc = "done"
    /\ Locations = 1
    /\ Len(hist.predicts) >= 2
    /\ Len(hist.loads) = 1

\* the columns of row r that hold a metric value
MetricColumns(r) == DOMAIN r.vals \ PathColumns(r)

\* C17 (as claimed): every appended row holds one metric column per
\* configured model reference, and two turns of one sample never write the
\* same metric column.
C17_OneColumnPerModel ==
    /\ \A r \in Rows([rows |-> entries]) :
          Cardinality(MetricColumns(r)) = Locations
    /\ \A i \in 1..Len(hist.predicts) : \A j \in 1..Len(hist.predicts) :
          LET p == hist.predicts[i]
              q == hist.predicts[j]
          IN  (p.sample = q.sample /\ p.turn # q.turn)
                  => metric_column(args, p.def.name) # metric_column(args, q.def.name)

\* two locations of different base directories and the same base name have
\* written one metric column
C17_SameNameOverwrites ==
    /\ pc = "append"
    /\ args.path_model_dir = <<M_plain, M_same_name>>
    /\ Cardinality(MetricColumns(entry)) = 1

\* C18: every prediction made in the turn of a configured location uses a
\* model instance that was loaded in a turn of that location from the
\* location's path, and the reference parsed from that location.
C18_ModelOfItsLocation ==
    \A i \in 1..Len(hist.predicts) :
        LET p == hist.predicts[i]
            ref == args.path_model_dir[p.turn]
        IN  /\ ~parse_model_raises(ref)
            /\ p.def = parse_model(ref)
            /\ p.model = parse_model(ref).path
            /\ p.instance \in 1..Len(hist.loads)
            /\ hist.loads[p.instance].turn = p.turn
            /\ hist.loads[p.instance].path = parse_model(ref).path

\* C18 witness: in the second sample of a run with two locations of
\* different paths and options, both turns have predicted.
C18_Witness ==
    /\ pc = "append"
    /\ count = 2
    /\ Locations = 2
    /\ Len(hist.predicts) = 4
    /\ hist.predicts[3].model # hist.predicts[4].model
    /\ hist.predicts[3].def.options # hist.predicts[4].def.options

\* the reference ref has the flag no_tta: a piece of the text after its ":"
\* that lies between separators and is exactly no_tta
HasOptOut(ref) ==
    \E i \in 2..Len(ref) :
        /\ ref[i] = "no_tta"
        /\ ref[i - 1] \in {":", ","}
        /\ i = Len(ref) \/ ref[i + 1] = ","
        /\ \E j \in 1..(i - 1) : ref[j] = ":"

\* C19: every prediction is made with test-time augmentation exactly when
\* the reference of its location does not have the flag no_tta.
C19_TtaUnlessOptOut ==
    \A i \in 1..Len(hist.predicts) :
        LET p == hist.predicts[i]
        IN  p.tta <=> ~HasOptOut(args.path_model_dir[p.turn])

\* C19 witness: in one sample the location with the flag no_tta has predicted
\* without augmentation and the location with other flags with it.
C19_Witness ==
    /\ pc = "append"
    /\ args.path_model_dir = <<M_no_tta, M_flags>>
    /\ ~hist.predicts[1].tta
    /\ hist.predicts[2].tta

\* C20: every image path of every appended row, and so of every row a flush
\* is given, names a file that a save_tif of this run has written and
\* returned from; when a save_tif has raised, the run has ended, the row of
\* the sample in work is not in the batch and no flush followed.
C20_FlushedRowsHaveImages ==
    /\ \A i \in 1..Len(entries) : \A c \in PathColumns(entries[i]) :
          /\ entries[i].vals[c] \in hist.written
          /\ entries[i].vals[c] \in fs.tifs
    /\ pc = "write" =>
          \A i \in 1..Len(entries) : \E r \in Rows(df) :
              /\ r.id = entries[i].id
              /\ \A c \in PathColumns(entries[i]) : Cell(r, c) \in hist.written
    /\ hist.reason = "image" =>
          /\ pc = "aborted"
          /\ Len(entries) = count - 1
          /\ \A i \in 1..Len(hist.flushes) : hist.flushes[i] < count
          /\ hist.snapshots = 0

\* C20 witness: after the flush of the first 8 samples, an image write of
\* the 9th failed and left a file that is not a written image; the run has
\* ended with the 8 flushed rows.
C20_Witness ==
    /\ pc = "aborted"
    /\ hist.reason = "image"
    /\ count = FlushEvery + 1
    /\ hist.flushes = <<FlushEvery>>
    /\ hist.wrote
    /\ Len(entries) = FlushEvery
    /\ \E f \in fs.tifs : f \notin hist.written

====
